---- MODULE Spec2Model ----
(***************************************************************************)
(* A model of dnt's build pipeline (build) and of the test harness it      *)
(* generates (test_runner.js: main, runTestDefinitions, getTestContext).   *)
(*                                                                         *)
(* The harness is JavaScript: one thread, run-to-completion jobs, a FIFO   *)
(* microtask queue that is emptied before the next macrotask (a timer, an  *)
(* I/O completion, the load of an ES module).  Every async function call   *)
(* is an activation with a program counter and a promise; an action of the *)
(* harness specification is one job of the event loop.                     *)
(***************************************************************************)
EXTENDS Integers, Sequences, FiniteSets, TLC

\* Bounds of the model.
MaxFiles == 2        \* test entry points listed in filePaths
MaxDefs == 2         \* top-level Deno.test definitions in all test modules together
MaxDiagnostics == 1  \* diagnostics one compiler call returns

VARIABLES
    shimUsed,          \* testOutput.shimUsed, fixed when the script is generated
    modules,           \* per entry point: the definitions its module registers when loaded
    acts,              \* every activation of an async function, in call order
    ctxs,              \* every object getTestContext() returned, in creation order
    testDefinitions,   \* the shim's queue of registered definitions
    micro,             \* the microtask queue: activations to resume, FIFO
    timers,            \* activations waiting for a macrotask (timer, I/O, import)
    out,               \* the result lines written to stdout, one per top-level definition
    summary,           \* the entries printed under FAILURES
    exitCode,          \* -1 while the process runs, then its exit code
    drains,            \* history: per drain, the queue it found and what was registered during it
    \* build(options)
    options,           \* typeCheck, test, keepTestFiles of BuildOptions
    testFilesFound,    \* whether getTestOutput() finds test files of its own
    testOutput,        \* whether testOutput is defined
    bpc,               \* where build() is
    proc,              \* the npm subprocess build() awaits, or "none"
    events,            \* history: the stages begun and the subprocess exits, in order
    files,             \* the files under outDir
    rendered,          \* the stages whose diagnostics outputDiagnostics printed
    diagAt,            \* history: the stage that returned diagnostics, or "none"
    result,            \* "running", "complete", "exit1" (Deno.exit(1)) or "threw"
    npmIgnore,         \* the lines of .npmignore
    deleted,           \* history: the paths deleteTestFiles removed, in order
    \* shimOptionsToTransformShims(options)
    shimOptions,       \* the ShimOptions it is called with
    resolved,          \* what it returned: shims and testShims
    \* createPackageJson()
    manifestIn,        \* transformOutput, testOutput, specifierMappings, options.package
    packageJsonObj     \* the object it hands to JSON.stringify

hvars == <<shimUsed, modules, acts, ctxs, testDefinitions, micro, timers, out,
           summary, exitCode, drains>>
cvars == <<npmIgnore, deleted>>
bvars == <<options, testFilesFound, testOutput, bpc, proc, events, files, rendered,
           diagAt, result, cvars>>
svars == <<shimOptions, resolved>>
mvars == <<manifestIn, packageJsonObj>>
vars == <<hvars, bvars, svars, mvars>>

(***************************************************************************)
(* Test definitions: what user code hands to Deno.test and to t.step.      *)
(* A body is the sequence of things the function does.                     *)
(***************************************************************************)
Throw == [op |-> "throw", def |-> 0, awaited |-> FALSE, on |-> "self"]
\* await of something the event loop completes later (a timer, I/O)
Tick == [op |-> "tick", def |-> 0, awaited |-> FALSE, on |-> "self"]
\* Deno.test(d) called from inside a running body
Register(d) == [op |-> "register", def |-> d, awaited |-> FALSE, on |-> "self"]
\* t.step(d), awaited or not, on the body's own context
Step(d, aw) == [op |-> "step", def |-> d, awaited |-> aw, on |-> "self"]
\* c.step(d) on the context c that the body's first step was given
StepOnChild(d, aw) == [op |-> "step", def |-> d, awaited |-> aw, on |-> "child"]

Def(n, ign, b) == [name |-> n, ignored |-> ign, body |-> b]

TestDefs == <<
    Def("passes", FALSE, <<>>),                                        \* 1
    Def("throws", FALSE, <<Throw>>),                                   \* 2
    Def("ignored", TRUE, <<Throw>>),                                   \* 3
    Def("async", FALSE, <<Tick>>),                                     \* 4
    Def("failing step", FALSE, <<Step(11, TRUE), Step(10, TRUE)>>),    \* 5
    Def("forgot await", FALSE, <<Step(12, FALSE)>>),                   \* 6
    Def("forgot await, sync step", FALSE, <<Step(10, FALSE)>>),        \* 7
    Def("registers", FALSE, <<Register(1)>>),                          \* 8
    Def("late step", FALSE, <<Step(10, TRUE), StepOnChild(11, TRUE)>>),\* 9
    Def("step passes", FALSE, <<>>),                                   \* 10
    Def("step throws", FALSE, <<Throw>>),                              \* 11
    Def("step slow", FALSE, <<Tick, Throw>>),                          \* 12
    Def("step ignored", TRUE, <<Throw>>),                              \* 13
    Def("step nested", FALSE, <<Step(12, FALSE)>>),                    \* 14
    Def("ignored step only", FALSE, <<Step(13, TRUE)>>),               \* 15
    Def("nested", FALSE, <<Step(14, TRUE), Step(17, TRUE)>>),          \* 16
    Def("step with ignored step", FALSE, <<Step(13, FALSE)>>)          \* 17
>>

\* A body that awaits is an async function; one that does not is a plain
\* function: it returns a value or throws, and no promise is involved.
isAsync(d) ==
    \E j \in 1..Len(TestDefs[d].body) :
        \/ TestDefs[d].body[j].op = "tick"
        \/ TestDefs[d].body[j].op = "step" /\ TestDefs[d].body[j].awaited

\* The definitions a module may register at top level.
TopDefs == {1, 2, 3, 4, 5, 6, 7, 8, 9, 15, 16}

SeqsUpTo(S, n) == UNION {[1..k -> S] : k \in 0..n}

Range(f) == {f[x] : x \in DOMAIN f}

SetMin(S) == CHOOSE x \in S : \A y \in S : x <= y
SetMax(S) == CHOOSE x \in S : \A y \in S : x >= y

\* The part of flat that file j owns.
Part(flat, owner, j) ==
    LET idx == {p \in 1..Len(flat) : owner[p] = j}
    IN  IF idx = {} THEN <<>> ELSE SubSeq(flat, SetMin(idx), SetMax(idx))

\* Every way to spread at most MaxDefs definitions over 1..MaxFiles modules.
Suites ==
    {[j \in 1..f |-> Part(flat, owner, j)] :
        <<f, flat, owner>> \in
            {t \in UNION {{<<f, flat, owner>> : owner \in [1..Len(flat) -> 1..f]} :
                          <<f, flat>> \in (1..MaxFiles) \X SeqsUpTo(TopDefs, MaxDefs)} :
                \A p, q \in 1..Len(t[2]) : p <= q => t[3][p] <= t[3][q]}}

(***************************************************************************)
(* Activations and contexts.                                               *)
(***************************************************************************)
\* parent: for a step, the context it was called on (`this`); for a body, the
\* activation that called it.  root: the top-level body it was started under.
\* childAtReturn (history): whether the body returned with a failing or pending child.
\* childAtCheck (history): what hasFailingChild was when step read it.
NewAct(kind, pc, def, ctx, parent, root, file, fmt) ==
    [kind |-> kind, pc |-> pc, i |-> 1, settled |-> "pending", awaiter |-> 0,
     callee |-> 0, def |-> def, ctx |-> ctx, parent |-> parent, root |-> root,
     file |-> file, fmt |-> fmt, defs |-> <<>>, k |-> 1, failures |-> <<>>,
     pass |-> FALSE, childAtReturn |-> FALSE, childAtCheck |-> FALSE]

getTestContext == [name |-> 0, status |-> "ok", err |-> FALSE, children |-> <<>>]

hasFailingChild(cs, c) ==
    \E j \in 1..Len(cs[c].children) :
        cs[cs[c].children[j]].status \in {"fail", "pending"}

Pop(s) == SubSeq(s, 1, Len(s) - 1)

IsPrefix(p, q) == Len(p) <= Len(q) /\ p = SubSeq(q, 1, Len(p))

\* a calls an async function: the callee runs first, up to its first await.
Call(m, a, act, nextpc) ==
    LET id == Len(m.acts) + 1
    IN  [m EXCEPT !.acts = Append([@ EXCEPT ![a].callee = id, ![a].pc = nextpc], act),
                  !.stack = Append(@, id)]

\* a awaits the promise of the activation it called last.
Await(m, a, nextpc) ==
    LET t == m.acts[a].callee
    IN  IF m.acts[t].settled # "pending"
        THEN [m EXCEPT !.acts[a].pc = nextpc,
                       !.micro = Append(@, a),
                       !.stack = Pop(@)]
        ELSE [m EXCEPT !.acts[a].pc = nextpc,
                       !.acts[t].awaiter = a,
                       !.stack = Pop(@)]

\* try { await definition.fn(context); ... } catch: a plain function that threw
\* never reached the await, the catch runs in the same job; everything else, a
\* value that is no promise included, is awaited.
AwaitFn(m, a, nextpc) ==
    LET t == m.acts[a].callee
    IN  IF m.acts[t].settled = "rejected" /\ ~isAsync(m.acts[t].def)
        THEN [m EXCEPT !.acts[a].pc = nextpc]
        ELSE Await(m, a, nextpc)

\* a awaits something only a later macrotask completes.
AwaitTask(m, a, nextpc) ==
    [m EXCEPT !.acts[a].pc = nextpc,
              !.timers = @ \cup {a},
              !.stack = Pop(@)]

\* a returns or throws: its promise settles and its awaiter is scheduled.  For a
\* plain function there is no promise: "rejected" records that the call threw.
Settle(m, a, outcome) ==
    LET w == m.acts[a].awaiter
    IN  [m EXCEPT !.acts[a].settled = outcome,
                  !.acts[a].pc = "done",
                  !.micro = IF w # 0 THEN Append(@, w) ELSE @,
                  !.stack = Pop(@)]

(***************************************************************************)
(* The generated script, one step of the activation on top of the stack.   *)
(***************************************************************************)
\* require(cjsPath) / import(esmPath): the module's top level calls Deno.test
\* for each of its definitions; Deno.test pushes on testDefinitions.
loadModule(m, file) == [m EXCEPT !.queue = @ \o modules[file]]

\* async function main()
main(m, a) ==
    LET A == m.acts[a]
    IN  CASE A.pc = "loop" ->
                IF A.file > Len(modules)
                THEN Settle(m, a, "fulfilled")
                ELSE IF ~shimUsed
                \* neither testDefinitions nor runTestDefinitions is in the script:
                \* the call throws a ReferenceError inside main
                THEN Settle(m, a, "rejected")
                ELSE Call(loadModule(m, A.file), a,
                          NewAct("run", "start", 0, 0, 0, 0, A.file, "cjs"),
                          "calledCjs")
          [] A.pc = "calledCjs" -> Await(m, a, "awaitCjs")
          [] A.pc = "awaitCjs" -> AwaitTask(m, a, "awaitImport")
          [] A.pc = "awaitImport" ->
                Call(loadModule(m, A.file), a,
                     NewAct("run", "start", 0, 0, 0, 0, A.file, "esm"),
                     "calledEsm")
          [] A.pc = "calledEsm" -> Await(m, a, "awaitEsm")
          [] A.pc = "awaitEsm" ->
                [m EXCEPT !.acts[a].file = @ + 1, !.acts[a].pc = "loop"]

\* testDefinitions.splice(0, testDefinitions.length): what it returns, what it leaves
spliceTaken(q) == q
\* a slice where the splice is: the queue keeps what the drain took
spliceLeftNothingRemoved(q) == q
spliceLeft(q) == <<>>

\* if (definition.ignored) of runTestDefinitions
definitionIgnored(d) == TestDefs[d].ignored

\* if (testFailures.length > 0) { ...; process.exit(1); }
reportFailures(m, a) ==
    IF Len(m.acts[a].failures) > 0
    THEN [m EXCEPT !.summary = @ \o m.acts[a].failures,
                   !.exitCode = 1,
                   !.acts[a].pc = "exited",
                   !.stack = <<>>,
                   !.micro = <<>>,
                   !.timers = {}]
    ELSE Settle(m, a, "fulfilled")

Line(A, d, res) ==
    [def |-> d, res |-> res, run |-> 0, act |-> 0, file |-> A.file, fmt |-> A.fmt]
Failure(A, d, err) == [def |-> d, err |-> err, file |-> A.file, fmt |-> A.fmt]

\* what the try/catch around `await definition.fn(context)` decides
testPasses(m, A) ==
    /\ m.acts[A.callee].settled = "fulfilled"
    /\ ~hasFailingChild(m.ctxs, A.ctx)

\* async function runTestDefinitions()
runTestDefinitions(m, a) ==
    LET A == m.acts[a]
    IN  CASE A.pc = "start" ->
                [m EXCEPT !.acts[a].defs = spliceTaken(m.queue),
                          !.acts[a].pc = "loop",
                          !.queue = spliceLeft(m.queue),
                          !.drains = Append(@, [run |-> a, before |-> m.queue,
                                                registered |-> <<>>])]
          [] A.pc = "loop" ->
                IF A.k > Len(A.defs)
                THEN reportFailures(m, a)
                ELSE IF definitionIgnored(A.defs[A.k])
                THEN [m EXCEPT !.out = Append(@, [Line(A, A.defs[A.k], "ignored")
                                                    EXCEPT !.run = a]),
                               !.acts[a].k = @ + 1]
                ELSE LET c == Len(m.ctxs) + 1
                         m1 == [m EXCEPT !.ctxs = Append(@, getTestContext),
                                         !.acts[a].ctx = c,
                                         !.acts[a].pass = FALSE]
                     IN  Call(m1, a,
                              NewAct("fn", "exec", A.defs[A.k], c, a, Len(m.acts) + 1,
                                     A.file, A.fmt),
                              "calledFn")
          [] A.pc = "calledFn" -> AwaitFn(m, a, "awaitFn")
          [] A.pc = "awaitFn" ->
                LET d == A.defs[A.k]
                    pass == testPasses(m, A)
                    err == IF m.acts[A.callee].settled = "rejected"
                           THEN "thrown" ELSE "Had failing test step."
                IN  [m EXCEPT !.acts[a].pass = pass,
                              !.acts[a].failures =
                                    IF pass THEN @ ELSE Append(@, Failure(A, d, err)),
                              !.out = Append(@, [Line(A, d, IF pass THEN "ok" ELSE "fail")
                                                   EXCEPT !.run = a, !.act = A.callee]),
                              !.acts[a].k = @ + 1,
                              !.acts[a].pc = "loop"]

\* the check of definition.ignored left out of step
stepIgnoredUnchecked(d) == FALSE
\* if (definition.ignored) of step
stepIgnored(d) == TestDefs[d].ignored

\* the status step() would store if it looked at the outcome of the body only
stepStatusOwnOutcome(m, A) ==
    IF m.acts[A.callee].settled = "rejected" THEN "fail" ELSE "ok"
\* the status step() stores once `await definition.fn(context)` is over
stepStatus(m, A) ==
    IF m.acts[A.callee].settled = "rejected" THEN "fail"
    ELSE IF hasFailingChild(m.ctxs, A.ctx) THEN "fail"
    ELSE "ok"

\* async step(nameOrTestDefinition, fn); A.parent is `this`
step(m, a) ==
    LET A == m.acts[a]
    IN  CASE A.pc = "start" ->
                LET c == Len(m.ctxs) + 1
                    m1 == [m EXCEPT !.ctxs = Append([@ EXCEPT ![A.parent].children =
                                                        Append(@, c)],
                                                    [getTestContext EXCEPT
                                                        !.name = A.def,
                                                        !.status = "pending"]),
                                    !.acts[a].ctx = c]
                IN  IF stepIgnored(A.def)
                    THEN Settle([m1 EXCEPT !.ctxs[c].status = "ignored"], a, "fulfilled")
                    ELSE Call(m1, a,
                              NewAct("fn", "exec", A.def, c, a, A.root, A.file, A.fmt),
                              "calledFn")
          [] A.pc = "calledFn" -> AwaitFn(m, a, "awaitFn")
          [] A.pc = "awaitFn" ->
                Settle([m EXCEPT !.ctxs[A.ctx].status = stepStatus(m, A),
                                 !.ctxs[A.ctx].err =
                                        (m.acts[A.callee].settled = "rejected"),
                                 !.acts[a].childAtCheck =
                                        /\ m.acts[A.callee].settled = "fulfilled"
                                        /\ hasFailingChild(m.ctxs, A.ctx)],
                       a, "fulfilled")

\* The context a body calls step on: its own, or the one its first step was given.
stepTarget(m, A, o) ==
    IF o.on = "self" THEN A.ctx ELSE m.ctxs[A.ctx].children[1]

\* Deno.test(d) of the shim: testDefinitions.push(d)
register(m, d) ==
    LET n == Len(m.drains)
    IN  [m EXCEPT !.queue = Append(@, d),
                  !.drains = IF n > 0 /\ m.acts[m.drains[n].run].settled = "pending"
                             THEN [@ EXCEPT ![n].registered = Append(@, d)]
                             ELSE @]

\* definition.fn(context): the body of a test or of a step
fn(m, a) ==
    LET A == m.acts[a]
        body == TestDefs[A.def].body
    IN  IF A.i > Len(body)
        THEN Settle([m EXCEPT !.acts[a].childAtReturn = hasFailingChild(m.ctxs, A.ctx)],
                    a, "fulfilled")
        ELSE LET o == body[A.i]
             IN  CASE A.pc = "exec" /\ o.op = "throw" -> Settle(m, a, "rejected")
                   [] A.pc = "exec" /\ o.op = "tick" -> AwaitTask(m, a, "await")
                   [] A.pc = "exec" /\ o.op = "register" ->
                        [register(m, o.def) EXCEPT !.acts[a].i = @ + 1]
                   [] A.pc = "exec" /\ o.op = "step" ->
                        Call(m, a,
                             NewAct("step", "start", o.def, 0, stepTarget(m, A, o),
                                    A.root, A.file, A.fmt),
                             "called")
                   [] A.pc = "called" ->
                        IF o.awaited THEN Await(m, a, "await")
                        ELSE [m EXCEPT !.acts[a].i = @ + 1, !.acts[a].pc = "exec"]
                   [] A.pc = "await" ->
                        [m EXCEPT !.acts[a].i = @ + 1, !.acts[a].pc = "exec"]

\* One step of the activation on top of the stack.
StepOnce(m) ==
    LET a == m.stack[Len(m.stack)]
    IN  CASE m.acts[a].kind = "main" -> main(m, a)
          [] m.acts[a].kind = "run" -> runTestDefinitions(m, a)
          [] m.acts[a].kind = "step" -> step(m, a)
          [] m.acts[a].kind = "fn" -> fn(m, a)

\* A job runs until the stack is empty: JavaScript never preempts it.
RECURSIVE RunJob(_)
RunJob(m) == IF m.stack = <<>> THEN m ELSE RunJob(StepOnce(m))

Machine ==
    [acts |-> acts, ctxs |-> ctxs, queue |-> testDefinitions, micro |-> micro,
     timers |-> timers, out |-> out, summary |-> summary, exitCode |-> exitCode,
     drains |-> drains, stack |-> <<>>]

Commit(m) ==
    /\ acts' = m.acts
    /\ ctxs' = m.ctxs
    /\ testDefinitions' = m.queue
    /\ micro' = m.micro
    /\ timers' = m.timers
    /\ out' = m.out
    /\ summary' = m.summary
    /\ exitCode' = m.exitCode
    /\ drains' = m.drains
    /\ UNCHANGED <<shimUsed, modules>>
    /\ UNCHANGED <<bvars, svars, mvars>>

\* The build variables of a state in which no build is modelled.
BuildIdle ==
    /\ options = [typeCheck |-> FALSE, test |-> FALSE, keepTestFiles |-> FALSE]
    /\ testFilesFound = FALSE
    /\ testOutput = FALSE
    /\ bpc = "none"
    /\ proc = "none"
    /\ events = <<>>
    /\ files = {}
    /\ rendered = <<>>
    /\ diagAt = "none"
    /\ result = "running"
    /\ npmIgnore = <<>>
    /\ deleted = <<>>

\* The variables of the two functions below in a state in which neither is called.
ShimsIdle == shimOptions = <<>> /\ resolved = <<>>
ManifestIdle == manifestIn = <<>> /\ packageJsonObj = <<>>

(***************************************************************************)
(* The event loop of the process running test_runner.js.                   *)
(***************************************************************************)
HInit ==
    /\ shimUsed \in BOOLEAN
    /\ modules \in Suites
    /\ acts = <<>>
    /\ ctxs = <<>>
    /\ testDefinitions = <<>>
    /\ micro = <<>>
    /\ timers = {}
    /\ out = <<>>
    /\ summary = <<>>
    /\ exitCode = -1
    /\ drains = <<>>
    /\ BuildIdle
    /\ ShimsIdle
    /\ ManifestIdle

\* the script's last statement: main();
Launch ==
    /\ acts = <<>>
    /\ exitCode = -1
    /\ Commit(RunJob([Machine EXCEPT
            !.acts = <<NewAct("main", "loop", 0, 0, 0, 0, 1, "")>>,
            !.stack = <<1>>]))

\* the oldest microtask: the continuation of an await whose promise has settled
Microtask ==
    /\ exitCode = -1
    /\ micro # <<>>
    /\ Commit(RunJob([Machine EXCEPT !.micro = Tail(@), !.stack = <<Head(micro)>>]))

\* a macrotask completes what activation a awaits; microtasks go first
Macrotask ==
    /\ exitCode = -1
    /\ micro = <<>>
    /\ \E a \in timers :
            Commit(RunJob([Machine EXCEPT !.timers = @ \ {a}, !.stack = <<a>>]))

mainRejected == acts # <<>> /\ acts[1].settled = "rejected"

\* nothing is left to run: the process ends
ExitIdle ==
    /\ exitCode = -1
    /\ acts # <<>>
    /\ micro = <<>>
    /\ timers = {}
    /\ exitCode' = 0
    /\ UNCHANGED <<shimUsed, modules, acts, ctxs, testDefinitions, micro, timers, out,
                   summary, drains>>
    /\ UNCHANGED <<bvars, svars, mvars>>

\* main()'s promise rejected and nothing handles it: Node 15 and later end the
\* process with code 1, earlier versions warn and go on (ExitIdle)
UnhandledRejection ==
    /\ exitCode = -1
    /\ mainRejected
    /\ micro = <<>>
    /\ exitCode' = 1
    /\ UNCHANGED <<shimUsed, modules, acts, ctxs, testDefinitions, micro, timers, out,
                   summary, drains>>
    /\ UNCHANGED <<bvars, svars, mvars>>

HNext == Launch \/ Microtask \/ Macrotask \/ ExitIdle \/ UnhandledRejection

Spec == HInit /\ [][HNext]_vars

(***************************************************************************)
(* build(options): one action per stage.  build() is one async function;   *)
(* it awaits the transformer and the npm subprocesses, the compiler calls  *)
(* are synchronous.                                                        *)
(***************************************************************************)
\* The harness variables of a state in which no harness runs.
HarnessIdle ==
    /\ shimUsed = FALSE
    /\ modules = <<>>
    /\ acts = <<>>
    /\ ctxs = <<>>
    /\ testDefinitions = <<>>
    /\ micro = <<>>
    /\ timers = {}
    /\ out = <<>>
    /\ summary = <<>>
    /\ exitCode = -1
    /\ drains = <<>>

BInit ==
    /\ options \in [typeCheck : BOOLEAN, test : BOOLEAN, keepTestFiles : BOOLEAN]
    /\ testFilesFound \in BOOLEAN
    /\ testOutput = FALSE
    /\ bpc = "transform"
    /\ proc = "none"
    /\ events = <<>>
    /\ files = {}
    /\ rendered = <<>>
    /\ diagAt = "none"
    /\ result = "running"
    /\ npmIgnore = <<>>
    /\ deleted = <<>>
    /\ HarnessIdle
    /\ ShimsIdle
    /\ ManifestIdle

\* what program.emit writes: one file per source file of the project, the test
\* files among them when there is a testOutput
emitted(dir, ext) ==
    {dir \o "/mod" \o ext} \cup (IF testOutput THEN {dir \o "/mod_test" \o ext} ELSE {})

\* function* getTestFileNames()
getTestFileNames ==
    IF ~testOutput THEN <<>>
    ELSE <<"./esm/mod_test.js", "./cjs/mod_test.js", "./test_runner.js">>

\* log("Transforming..."); await transformEntryPoints(options.entryPoints)
Transform ==
    /\ bpc = "transform"
    /\ events' = Append(events, "transform")
    /\ bpc' = "getTestOutput"
    /\ UNCHANGED <<options, testFilesFound, testOutput, proc, files, rendered, diagAt,
                   result>>
    /\ UNCHANGED <<hvars, svars, mvars, cvars>>

\* if (options.test) testOutput = await getTestOutput(); createPackageJson();
\* createNpmIgnore()
GetTestOutput ==
    /\ bpc = "getTestOutput"
    /\ testOutput' = (options.test /\ testFilesFound)
    /\ files' = files \cup {"./package.json"}
                      \cup (IF testOutput' THEN {"./.npmignore"} ELSE {})
    /\ npmIgnore' = getTestFileNames'
    /\ bpc' = "install"
    /\ UNCHANGED <<options, testFilesFound, proc, events, rendered, diagAt, result,
                   deleted>>
    /\ UNCHANGED <<hvars, svars, mvars>>

\* runNpmCommand(args) up to `await process.status()`
runNpmCommand(name, awaitpc) ==
    /\ proc' = name
    /\ events' = Append(events, name)
    /\ bpc' = awaitpc
    /\ UNCHANGED <<options, testFilesFound, testOutput, files, rendered, diagAt, result>>

\* runNpmCommand(args) without the look at status.success
npmExitsUnchecked(name, success, nextpc) ==
    /\ proc = name
    /\ proc' = "none"
    /\ events' = Append(events, name \o " exit")
    /\ bpc' = nextpc
    /\ result' = result
    /\ UNCHANGED <<options, testFilesFound, testOutput, files, rendered, diagAt>>

\* runNpmCommand(args) from `await process.status()` on: a failure status throws
\* out of build()
npmExits(name, success, nextpc) ==
    /\ proc = name
    /\ proc' = "none"
    /\ events' = Append(events, name \o " exit")
    /\ IF success
       THEN bpc' = nextpc /\ result' = result
       ELSE bpc' = "threw" /\ result' = "threw"
    /\ UNCHANGED <<options, testFilesFound, testOutput, files, rendered, diagAt>>

Install ==
    /\ bpc = "install"
    /\ runNpmCommand("install", "awaitInstall")
    /\ UNCHANGED <<hvars, svars, mvars, cvars>>

InstallExits ==
    /\ bpc = "awaitInstall"
    /\ \E success \in BOOLEAN : npmExits("install", success, "typeCheck")
    /\ UNCHANGED <<hvars, svars, mvars, cvars>>

\* diagnostics that never stop the build
fatalNever(n) == FALSE
\* if (diagnostics.length > 0)
fatal(n) == n > 0

\* outputDiagnostics(diagnostics); Deno.exit(1);
abort(stage, n) ==
    /\ rendered' = Append(rendered, stage)
    /\ diagAt' = stage
    /\ result' = "exit1"
    /\ bpc' = "exited"

\* if (options.typeCheck) without its condition
typeCheckAlways == TRUE
\* if (options.typeCheck)
typeCheckEnabled == options.typeCheck

\* if (options.typeCheck) { ... ts.getPreEmitDiagnostics(program) ... }
TypeCheck ==
    /\ bpc = "typeCheck"
    /\ IF typeCheckEnabled
       THEN /\ events' = Append(events, "typeCheck")
            /\ \E n \in 0..MaxDiagnostics :
                    IF fatal(n)
                    THEN abort("typeCheck", n)
                    ELSE /\ bpc' = "emitDeclarations"
                         /\ diagAt' = IF n > 0 THEN "typeCheck" ELSE diagAt
                         /\ UNCHANGED <<rendered, result>>
       ELSE /\ bpc' = "emitDeclarations"
            /\ UNCHANGED <<events, rendered, diagAt, result>>
    /\ UNCHANGED <<options, testFilesFound, testOutput, proc, files>>
    /\ UNCHANGED <<hvars, svars, mvars, cvars>>

\* emit(opts) and the marker file written after it: program.emit writes the
\* files, then the diagnostics decide
emit(stage, dir, ext, marker, nextpc) ==
    /\ bpc = stage
    /\ events' = Append(events, stage)
    /\ \E n \in 0..MaxDiagnostics :
            IF fatal(n)
            THEN /\ abort(stage, n)
                 /\ files' = files \cup emitted(dir, ext)
            ELSE /\ bpc' = nextpc
                 /\ files' = files \cup emitted(dir, ext) \cup marker
                 /\ diagAt' = IF n > 0 THEN stage ELSE diagAt
                 /\ UNCHANGED <<rendered, result>>
    /\ UNCHANGED <<options, testFilesFound, testOutput, proc>>

EmitDeclarations ==
    /\ emit("emitDeclarations", "./types", ".d.ts", {}, "emitEsm")
    /\ UNCHANGED <<hvars, svars, mvars, cvars>>

EmitEsm ==
    /\ emit("emitEsm", "./esm", ".js", {"./esm/package.json"}, "emitCjs")
    /\ UNCHANGED <<hvars, svars, mvars, cvars>>

EmitCjs ==
    /\ emit("emitCjs", "./cjs", ".js", {"./cjs/package.json"}, "tests")
    /\ UNCHANGED <<hvars, svars, mvars, cvars>>

\* if (testOutput) { await createTestLauncherScript(); ... } else log("Complete!")
CreateTestLauncherScript ==
    /\ bpc = "tests"
    /\ IF testOutput
       THEN /\ events' = Append(events, "harness")
            /\ files' = files \cup {"./test_runner.js"}
            /\ bpc' = "runTests"
            /\ result' = result
       ELSE /\ bpc' = "complete"
            /\ result' = "complete"
            /\ UNCHANGED <<events, files>>
    /\ UNCHANGED <<options, testFilesFound, testOutput, proc, rendered, diagAt>>
    /\ UNCHANGED <<hvars, svars, mvars, cvars>>

RunTests ==
    /\ bpc = "runTests"
    /\ runNpmCommand("test", "awaitTests")
    /\ UNCHANGED <<hvars, svars, mvars, cvars>>

\* `npm run test` runs `node test_runner.js`: the status build() gets is the
\* exit code of the harness
TestsExit ==
    /\ bpc = "awaitTests"
    /\ \E code \in {0, 1} :
            /\ exitCode' = code
            /\ npmExits("test", code = 0, "cleanup")
    /\ UNCHANGED <<shimUsed, modules, acts, ctxs, testDefinitions, micro, timers, out,
                   summary, drains>>
    /\ UNCHANGED <<svars, mvars, cvars>>

\* if (!options.keepTestFiles) await deleteTestFiles(): up to the first
\* `await Deno.remove(...)`; with keepTestFiles, log("Complete!") and the return
DeleteTestFiles ==
    /\ bpc = "cleanup"
    /\ IF ~options.keepTestFiles
       THEN /\ events' = Append(events, "cleanup")
            /\ bpc' = "remove"
            /\ result' = result
       ELSE /\ bpc' = "complete"
            /\ result' = "complete"
            /\ events' = events
    /\ UNCHANGED <<options, testFilesFound, testOutput, proc, files, rendered, diagAt>>
    /\ UNCHANGED <<hvars, svars, mvars, cvars>>

\* the file the loop of deleteTestFiles is at
removing == getTestFileNames[Len(deleted) + 1]

\* `await Deno.remove(path.join(options.outDir, file))` is over: the file is
\* removed and the loop goes on to the next one, or the removal failed (the file
\* is not there, or may not be removed) and build() rejects with its error
Removed ==
    /\ bpc = "remove"
    /\ \E ok \in BOOLEAN :
            IF ok
            THEN /\ files' = files \ {removing}
                 /\ deleted' = Append(deleted, removing)
                 /\ bpc' = IF Len(deleted') < Len(getTestFileNames)
                           THEN "remove" ELSE "removedAll"
                 /\ result' = result
            ELSE /\ bpc' = "threw"
                 /\ result' = "threw"
                 /\ UNCHANGED <<files, deleted>>
    /\ UNCHANGED <<options, testFilesFound, testOutput, proc, events, rendered, diagAt,
                   npmIgnore>>
    /\ UNCHANGED <<hvars, svars, mvars>>

\* deleteTestFiles() has returned: log("Complete!") and build() resolves
Complete ==
    /\ bpc = "removedAll"
    /\ bpc' = "complete"
    /\ result' = "complete"
    /\ UNCHANGED <<options, testFilesFound, testOutput, proc, events, files, rendered,
                   diagAt>>
    /\ UNCHANGED <<hvars, svars, mvars, cvars>>

BNext ==
    \/ Transform
    \/ GetTestOutput
    \/ Install
    \/ InstallExits
    \/ TypeCheck
    \/ EmitDeclarations
    \/ EmitEsm
    \/ EmitCjs
    \/ CreateTestLauncherScript
    \/ RunTests
    \/ TestsExit
    \/ DeleteTestFiles
    \/ Removed
    \/ Complete

BuildSpec == BInit /\ [][BNext]_vars

(***************************************************************************)
(* Properties of build().                                                  *)
(***************************************************************************)
TestsExist == options.test /\ testFilesFound

\* the stages of one complete build, with the exits of its subprocesses
ExpectedEvents ==
    <<"transform", "install", "install exit">>
    \o (IF options.typeCheck THEN <<"typeCheck">> ELSE <<>>)
    \o <<"emitDeclarations", "emitEsm", "emitCjs">>
    \o (IF TestsExist
        THEN <<"harness", "test", "test exit">>
             \o (IF options.keepTestFiles THEN <<>> ELSE <<"cleanup">>)
        ELSE <<>>)

\* C9: the stages of a build run in the fixed order transform, install, type
\* check (when enabled), declarations, ESM, CJS, harness, tests (when tests
\* exist), cleanup (when enabled), none twice; while a subprocess is awaited
\* nothing else begins; a build that completes has run them all.
C9_StagesInOrder ==
    /\ IsPrefix(events, ExpectedEvents)
    /\ proc # "none" => events[Len(events)] = proc
    /\ result = "complete" => events = ExpectedEvents

C9_Witness ==
    /\ result = "complete"
    /\ options.typeCheck
    /\ TestsExist
    /\ ~options.keepTestFiles

Outputs(dir, ext) ==
    {dir \o "/mod" \o ext} \cup (IF TestsExist THEN {dir \o "/mod_test" \o ext} ELSE {})

\* what is on disk once the given stage has written its files
WrittenBy(stage) ==
    {"./package.json"}
    \cup (IF TestsExist THEN {"./.npmignore"} ELSE {})
    \cup (IF stage \in {"emitDeclarations", "emitEsm", "emitCjs"}
          THEN Outputs("./types", ".d.ts") ELSE {})
    \cup (IF stage \in {"emitEsm", "emitCjs"} THEN Outputs("./esm", ".js") ELSE {})
    \cup (IF stage = "emitCjs"
          THEN {"./esm/package.json"} \cup Outputs("./cjs", ".js") ELSE {})

\* C10: diagnostics of the type check or of an emission are fatal: they are
\* rendered, the build exits with code 1 at that stage, no later stage, marker
\* file or subprocess follows, and what was written up to there is on disk.
C10_DiagnosticsAreFatal ==
    /\ diagAt # "none" =>
            /\ result = "exit1"
            /\ bpc = "exited"
            /\ rendered = <<diagAt>>
            /\ events[Len(events)] = diagAt
            /\ proc = "none"
            /\ files = WrittenBy(diagAt)
    /\ result = "exit1" => diagAt \in {"typeCheck", "emitDeclarations", "emitEsm", "emitCjs"}
    /\ diagAt = "none" => rendered = <<>>

C10_Witness ==
    /\ diagAt = "emitCjs"
    /\ result = "exit1"
    /\ TestsExist
    /\ "./cjs/mod_test.js" \in files

\* what is on disk when `npm run test` is started
BeforeTests == WrittenBy("emitCjs") \cup {"./cjs/package.json", "./test_runner.js"}

Cleaned == \E j \in 1..Len(events) : events[j] = "cleanup"

\* the paths .npmignore lists when there are tests
Listed == <<"./esm/mod_test.js", "./cjs/mod_test.js", "./test_runner.js">>

\* C22: deleteTestFiles runs if and only if tests exist, `npm run test` exited
\* with success and keepTestFiles is not set; after a test run that exits
\* non-zero the test files and test_runner.js are never deleted; and when it
\* runs it deletes exactly the paths listed in .npmignore: one after the other
\* in the order of the list, nothing else, and all of them by the time build()
\* completes (a removal that fails makes build() throw where the loop stands).
C22_CleanupOnlyAfterSuccess ==
    /\ Cleaned => (TestsExist /\ exitCode = 0 /\ ~options.keepTestFiles)
    /\ (result = "complete" /\ TestsExist /\ exitCode = 0 /\ ~options.keepTestFiles)
            => Cleaned
    /\ bpc \in {"remove", "removedAll"} => Cleaned
    /\ exitCode = 1 =>
            /\ ~Cleaned
            /\ bpc \notin {"cleanup", "remove", "removedAll", "complete"}
            /\ Range(Listed) \subseteq files
    /\ ~Cleaned => deleted = <<>>
    /\ Cleaned =>
            /\ "./.npmignore" \in files
            /\ npmIgnore = Listed
            /\ IsPrefix(deleted, npmIgnore)
            /\ files = BeforeTests \ Range(deleted)
            /\ result = "running" => bpc \in {"remove", "removedAll"}
            /\ bpc = "remove" => deleted # npmIgnore
            /\ bpc = "removedAll" => deleted = npmIgnore
            /\ result = "complete" => deleted = npmIgnore
            /\ result = "threw" => deleted # npmIgnore

C22_Witness ==
    /\ result = "complete"
    /\ Cleaned
    /\ exitCode = 0
    /\ deleted = npmIgnore
    /\ deleted = Listed
    /\ files = BeforeTests \ Range(Listed)
    /\ "./cjs/mod.js" \in files

\* C11: when the harness exits non-zero because tests failed, build() does not
\* throw for it: the failure is the harness's exit code only, and what the
\* earlier stages wrote is still on disk.
C11_TestFailureNotThrown ==
    (exitCode = 1) =>
        /\ result # "threw"
        /\ files = BeforeTests

(***************************************************************************)
(* Properties of the harness.                                              *)
(***************************************************************************)
Done == exitCode # -1

\* the definitions named by the lines that drain r wrote, in order
RECURSIVE LinesOf(_, _)
LinesOf(lines, r) ==
    IF lines = <<>> THEN <<>>
    ELSE IF Head(lines).run = r THEN <<Head(lines).def>> \o LinesOf(Tail(lines), r)
    ELSE LinesOf(Tail(lines), r)

\* the definitions whose bodies drain r called, in order
RECURSIVE CalledBy(_, _, _)
CalledBy(as, r, from) ==
    IF from > Len(as) THEN <<>>
    ELSE IF as[from].kind = "fn" /\ as[from].parent = r
         THEN <<as[from].def>> \o CalledBy(as, r, from + 1)
         ELSE CalledBy(as, r, from + 1)

RECURSIVE NotIgnored(_)
NotIgnored(ds) ==
    IF ds = <<>> THEN <<>>
    ELSE IF TestDefs[Head(ds)].ignored THEN NotIgnored(Tail(ds))
    ELSE <<Head(ds)>> \o NotIgnored(Tail(ds))

Entries(fmt, d) == {j \in 1..Len(summary) : summary[j].fmt = fmt /\ summary[j].def = d}

\* C1: one entry point with one test whose body throws: when the harness has
\* finished, the test is listed under FAILURES once for the CJS run and once for
\* the ESM run, and the exit code is 1.
C1_FailureListedOncePerFormat ==
    (Done /\ shimUsed /\ modules = <<<<2>>>>) =>
        /\ Cardinality(Entries("cjs", 2)) = 1
        /\ Cardinality(Entries("esm", 2)) = 1
        /\ exitCode = 1

\* C2: no shim used, one entry point with one passing test: the script ends with
\* no reported failure and exit code 0, and main() called nothing undefined.
C2_NoShimRunSucceeds ==
    (Done /\ ~shimUsed /\ modules = <<<<1>>>>) =>
        /\ exitCode = 0
        /\ summary = <<>>
        /\ ~mainRejected

\* C3: no partial credit: when the harness has finished with exit code 0, no
\* test was reported fail and no step at any depth has status fail.
C3_NoPartialCredit ==
    (Done /\ exitCode = 0) =>
        /\ \A j \in 1..Len(out) : out[j].res # "fail"
        /\ \A c \in 1..Len(ctxs) : ctxs[c].status # "fail"

\* C4: a body that returned without throwing while a direct child step was fail
\* or pending is reported failing: a top-level test gets the line "fail" and an
\* entry in the failures, a step gets status fail.
C4_UnsettledChildFailsParent ==
    /\ \A j \in 1..Len(out) :
            (out[j].act # 0 /\ acts[out[j].act].childAtReturn) =>
                /\ out[j].res = "fail"
                /\ \E f \in Range(acts[out[j].run].failures) : f.def = out[j].def
    /\ \A a \in 1..Len(acts) :
            (/\ acts[a].kind = "step"
             /\ acts[a].settled # "pending"
             /\ acts[a].callee # 0
             /\ acts[acts[a].callee].childAtReturn) =>
                ctxs[acts[a].ctx].status = "fail"

AllIgnored(c) ==
    /\ ctxs[c].children # <<>>
    /\ \A j \in 1..Len(ctxs[c].children) : ctxs[ctxs[c].children[j]].status = "ignored"

\* C5: the body of an ignored definition is never called, at top level or as a
\* step; an ignored top-level definition is reported ignored, an ignored step
\* has status ignored, and a body that returned with ignored steps only is ok.
C5_IgnoredNeverInvoked ==
    /\ \A a \in 1..Len(acts) : acts[a].kind = "fn" => ~TestDefs[acts[a].def].ignored
    /\ \A j \in 1..Len(out) :
            TestDefs[out[j].def].ignored <=> out[j].res = "ignored"
    /\ \A c \in 1..Len(ctxs) :
            (ctxs[c].name # 0 /\ TestDefs[ctxs[c].name].ignored) =>
                ctxs[c].status = "ignored" /\ ctxs[c].children = <<>>
    /\ \A j \in 1..Len(out) :
            (/\ out[j].act # 0
             /\ acts[out[j].act].settled = "fulfilled"
             /\ AllIgnored(acts[out[j].act].ctx)) => out[j].res = "ok"
    /\ \A a \in 1..Len(acts) :
            (/\ acts[a].kind = "step"
             /\ acts[a].settled # "pending"
             /\ acts[a].callee # 0
             /\ acts[acts[a].callee].settled = "fulfilled"
             /\ AllIgnored(acts[a].ctx)) => ctxs[acts[a].ctx].status = "ok"

C5_Witness ==
    /\ \E j \in 1..Len(out) : out[j].res = "ignored"
    /\ \E j \in 1..Len(out) :
            /\ out[j].res = "ok"
            /\ out[j].act # 0
            /\ AllIgnored(acts[out[j].act].ctx)

DrainOver(r) == acts[r].pc \in {"done", "exited"}

\* C6: a drain takes exactly the definitions that were in the queue when it
\* started and goes through them in registration order; what is registered
\* while it runs is not run by it and is in the queue for the next drain.
C6_DrainTakesSnapshot ==
    \A n \in 1..Len(drains) :
        LET r == drains[n].run
            before == drains[n].before
        IN  /\ acts[r].defs = before
            /\ IsPrefix(LinesOf(out, r), before)
            /\ IsPrefix(CalledBy(acts, r, 1), NotIgnored(before))
            /\ DrainOver(r) =>
                    /\ LinesOf(out, r) = before
                    /\ CalledBy(acts, r, 1) = NotIgnored(before)
            /\ (~DrainOver(r) /\ ~Done) => testDefinitions = drains[n].registered
            /\ n < Len(drains) => IsPrefix(drains[n].registered, drains[n + 1].before)

C6_Witness ==
    \E n \in 1..Len(drains) :
        /\ n < Len(drains)
        /\ drains[n].registered # <<>>
        /\ DrainOver(drains[n].run)
        /\ DrainOver(drains[n + 1].run)
        /\ Len(drains[n + 1].before) > Len(drains[n].registered)

\* C7: when the harness has finished without reporting anything (exit code 0,
\* the script has no other way to flag a definition), no registered definition
\* is left in the queue without having been run.
C7_NoDefinitionLeftUndrained ==
    (Done /\ exitCode = 0) => testDefinitions = <<>>

\* C8: while the loop of runTestDefinitions is at one test, nothing started by
\* an earlier test is still unsettled.
C8_TestsNeverOverlap ==
    \A r \in 1..Len(acts) :
        (acts[r].kind = "run" /\ acts[r].pc \in {"calledFn", "awaitFn"}) =>
            \A x \in 1..Len(acts) :
                (acts[x].kind \in {"fn", "step"} /\ acts[x].settled = "pending") =>
                    acts[x].root = acts[r].callee

\* the calls of step that have made their context
Steps == {a \in 1..Len(acts) : acts[a].kind = "step" /\ acts[a].ctx # 0}
\* the contexts runTestDefinitions made, and the calls of step for the others
Roots == {c \in 1..Len(ctxs) : ctxs[c].name = 0}
StepOf(c) == CHOOSE a \in Steps : acts[a].ctx = c
BodyThrew(a) == acts[a].callee # 0 /\ acts[acts[a].callee].settled = "rejected"
BodyReturned(a) == acts[a].callee # 0 /\ acts[acts[a].callee].settled = "fulfilled"

\* C19: the stored status of a node is the outcome of its own body or its
\* ignored flag, never a consequence of the statuses of its children: ignored
\* for an ignored definition, pending until step is over, then fail if the body
\* threw and ok if it returned; the status of a test's context is never written.
C19_StatusIsOwnOutcomeOnly ==
    /\ \A c \in Roots : ctxs[c].status = "ok"
    /\ \A a \in Steps :
            ctxs[acts[a].ctx].status =
                (IF TestDefs[acts[a].def].ignored THEN "ignored"
                 ELSE IF acts[a].settled = "pending" THEN "pending"
                 ELSE IF BodyThrew(a) THEN "fail"
                 ELSE "ok")

\* C19 as amended: the status of a node is written by the call of step that made
\* the node and by nothing else, in particular by no step of a child: ignored
\* for an ignored definition, pending until that call is over, then fail with
\* the error if the body threw, and if it returned fail when hasFailingChild was
\* true at that moment and ok otherwise, whatever the children do later; the
\* status of a test's context is never written, its failing children count
\* through hasFailingChild only.
C19_StatusWrittenByOwnStepOnly ==
    /\ \A c \in Roots : ctxs[c].status = "ok" /\ ~ctxs[c].err
    /\ \A c \in (1..Len(ctxs)) \ Roots : \E a \in Steps : acts[a].ctx = c
    /\ \A a \in Steps :
            LET c == ctxs[acts[a].ctx]
            IN  IF TestDefs[acts[a].def].ignored
                THEN c.status = "ignored" /\ ~c.err /\ acts[a].callee = 0
                ELSE IF acts[a].settled = "pending"
                THEN c.status = "pending" /\ ~c.err
                ELSE IF BodyThrew(a)
                THEN c.status = "fail" /\ c.err
                ELSE /\ BodyReturned(a)
                     /\ ~c.err
                     /\ c.status = (IF acts[a].childAtCheck THEN "fail" ELSE "ok")

\* the bodies that have been called, and the steps a body calls on its own context
Bodies == {f \in 1..Len(acts) : acts[f].kind = "fn"}
OwnSteps(d) ==
    {i \in 1..Len(TestDefs[d].body) :
        TestDefs[d].body[i].op = "step" /\ TestDefs[d].body[i].on = "self"}
ParentsOf(c) == {p \in 1..Len(ctxs) : c \in Range(ctxs[p].children)}
\* the result lines of the test whose context is c
LinesFor(c) == {j \in 1..Len(out) : out[j].act # 0 /\ acts[out[j].act].ctx = c}

\* step resolves and never throws; a body that threw leaves fail and the error
StepResolves ==
    \A a \in Steps :
        /\ acts[a].settled # "rejected"
        /\ (acts[a].settled = "fulfilled" /\ BodyThrew(a)) =>
                ctxs[acts[a].ctx].status = "fail" /\ ctxs[acts[a].ctx].err

\* a body is aborted by its own throw only, and a body that returned has
\* called every one of its steps
OnlyOwnThrowAborts ==
    \A f \in Bodies :
        LET body == TestDefs[acts[f].def].body
        IN  /\ acts[f].settled = "rejected" =>
                    acts[f].i <= Len(body) /\ body[acts[f].i].op = "throw"
            /\ acts[f].settled = "fulfilled" =>
                    /\ acts[f].i > Len(body)
                    /\ Len(ctxs[acts[f].ctx].children) >= Cardinality(OwnSteps(acts[f].def))

\* the parent of a failed step is failing too when the harness is over
ParentOfFailedStepFails ==
    Done =>
        \A c \in (1..Len(ctxs)) \ Roots :
            ctxs[c].status = "fail" =>
                \A p \in ParentsOf(c) :
                    IF p \in Roots
                    THEN /\ LinesFor(p) # {}
                         /\ \A j \in LinesFor(p) : out[j].res = "fail"
                    ELSE ctxs[p].status \in {"fail", "pending"}

\* C20: a step whose body throws, or that has a failing child, aborts neither
\* its siblings nor its parent: step stores fail and the error and resolves, the
\* parent's body goes on and calls its later steps, only its own throw aborts
\* it, and the parent is reported failing afterwards.
C20_FailingStepDoesNotAbort ==
    /\ StepResolves
    /\ OnlyOwnThrowAborts
    /\ ParentOfFailedStepFails

C19_Witness ==
    /\ Done
    /\ \E a \in Steps :
            /\ BodyReturned(a)
            /\ ctxs[acts[a].ctx].status = "fail"
            /\ ~ctxs[acts[a].ctx].err
    /\ \E c \in Roots : hasFailingChild(ctxs, c)
    /\ \E j \in 1..Len(out) : out[j].res = "fail"

(***************************************************************************)
(* shimOptionsToTransformShims(options): from the ShimOptions to the shims *)
(* of the distributed code and the shims of the test code.                 *)
(***************************************************************************)
MaxCustom == 1       \* shims in options.custom, and in options.customDev

\* a GlobalName given as a string: the name of a value
global(name) == [name |-> name, typeOnly |-> FALSE]
typeOnly(name) == [name |-> name, typeOnly |-> TRUE]

getDenoShim ==
    [package |-> [name |-> "@deno/shim-deno", version |-> "~0.1.1"],
     globalNames |-> <<global("Deno")>>]

\* the object form given the package of the whole namespace
getDenoTestShimWholePackage ==
    [package |-> [name |-> "@deno/shim-deno", version |-> "~0.1.1"],
     globalNames |-> <<global("Deno")>>]

getDenoTestShim ==
    [package |-> [name |-> "@deno/shim-deno-test", version |-> "~0.2.0"],
     globalNames |-> <<global("Deno")>>]

getCryptoShim ==
    [package |-> [name |-> "@deno/shim-crypto", version |-> "~0.2.0"],
     globalNames |-> <<
        global("crypto"), typeOnly("Crypto"), typeOnly("SubtleCrypto"),
        typeOnly("AlgorithmIdentifier"), typeOnly("Algorithm"),
        typeOnly("RsaOaepParams"), typeOnly("BufferSource"),
        typeOnly("AesCtrParams"), typeOnly("AesCbcParams"), typeOnly("AesGcmParams"),
        typeOnly("CryptoKey"), typeOnly("KeyAlgorithm"), typeOnly("KeyType"),
        typeOnly("KeyUsage"), typeOnly("EcdhKeyDeriveParams"), typeOnly("HkdfParams"),
        typeOnly("HashAlgorithmIdentifier"), typeOnly("Pbkdf2Params"),
        typeOnly("AesDerivedKeyParams"), typeOnly("HmacImportParams"),
        typeOnly("JsonWebKey"), typeOnly("RsaOtherPrimesInfo"), typeOnly("KeyFormat"),
        typeOnly("RsaHashedKeyGenParams"), typeOnly("RsaKeyGenParams"),
        typeOnly("BigInteger"), typeOnly("EcKeyGenParams"), typeOnly("NamedCurve"),
        typeOnly("CryptoKeyPair"), typeOnly("AesKeyGenParams"),
        typeOnly("HmacKeyGenParams"), typeOnly("RsaHashedImportParams"),
        typeOnly("EcKeyImportParams"), typeOnly("AesKeyAlgorithm"),
        typeOnly("RsaPssParams"), typeOnly("EcdsaParams")>>]

\* the only shim whose package has no version
getBlobShim ==
    [package |-> [name |-> "buffer"],
     globalNames |-> <<global("Blob")>>]

getPromptsShim ==
    [package |-> [name |-> "@deno/shim-prompts", version |-> "~0.1.0"],
     globalNames |-> <<global("alert"), global("confirm"), global("prompt")>>]

getTimersShim ==
    [package |-> [name |-> "@deno/shim-timers", version |-> "~0.1.0"],
     globalNames |-> <<global("setInterval"), global("setTimeout")>>]

getUndiciShim ==
    [package |-> [name |-> "undici", version |-> "^4.12.1"],
     globalNames |-> <<global("fetch"), global("File"), global("FormData"),
                       global("Headers"), global("Request"), global("Response")>>]

\* ShimValue: true, false, "dev", or the option left out
ShimValue == {"true", "false", "dev", "undefined"}

\* options.deno: a ShimValue, or the object { test: ShimValue }
DenoOption ==
    [object : {FALSE}, value : ShimValue]
    \cup [object : {TRUE}, test : {"true", "false", "dev"}]

\* the Shim objects user code passes in custom and in customDev
CustomShims ==
    {[package |-> [name |-> "my-shim", version |-> "1.0.0"],
      globalNames |-> <<global("myGlobal")>>]}
CustomDevShims ==
    {[package |-> [name |-> "my-dev-shim", version |-> "2.0.0"],
      globalNames |-> <<global("myDevGlobal")>>]}

\* custom and customDev left out give what an empty list gives
ShimOptions ==
    [deno : DenoOption, blob : ShimValue, crypto : ShimValue, prompts : ShimValue,
     timers : ShimValue, undici : ShimValue,
     custom : SeqsUpTo(CustomShims, MaxCustom),
     customDev : SeqsUpTo(CustomDevShims, MaxCustom)]

\* add with `true` treated as "dev": nothing goes to shims
addTestOnly(l, option, getShim) ==
    IF option \in {"true", "dev"}
    THEN [l EXCEPT !.testShims = Append(@, getShim)]
    ELSE l
\* add with "dev" treated as `true`
addEverywhere(l, option, getShim) ==
    IF option \in {"true", "dev"}
    THEN [shims |-> Append(l.shims, getShim), testShims |-> Append(l.testShims, getShim)]
    ELSE l
\* add with unshift on testShims where the push is
addTestInFront(l, option, getShim) ==
    IF option = "true"
    THEN [shims |-> Append(l.shims, getShim), testShims |-> <<getShim>> \o l.testShims]
    ELSE IF option = "dev"
    THEN [l EXCEPT !.testShims = <<getShim>> \o @]
    ELSE l
\* function add(option, getShim)
add(l, option, getShim) ==
    IF option = "true"
    THEN [shims |-> Append(l.shims, getShim), testShims |-> Append(l.testShims, getShim)]
    ELSE IF option = "dev"
    THEN [l EXCEPT !.testShims = Append(@, getShim)]
    ELSE l

\* the object form with `true` taken as "dev"
addDenoScopedToTests(l, deno) ==
    IF deno.object
    THEN add(l, IF deno.test = "true" THEN "dev" ELSE deno.test, getDenoTestShim)
    ELSE add(l, deno.value, getDenoShim)
\* if (typeof options.deno === "object") add(options.deno.test, getDenoTestShim)
\* else add(options.deno, getDenoShim)
addDeno(l, deno) ==
    IF deno.object
    THEN add(l, deno.test, getDenoTestShim)
    ELSE add(l, deno.value, getDenoShim)

shimOptionsToTransformShims(o) ==
    LET l0 == [shims |-> <<>>, testShims |-> <<>>]
        l1 == addDeno(l0, o.deno)
        l2 == add(l1, o.blob, getBlobShim)
        l3 == add(l2, o.crypto, getCryptoShim)
        l4 == add(l3, o.prompts, getPromptsShim)
        l5 == add(l4, o.timers, getTimersShim)
        l6 == add(l5, o.undici, getUndiciShim)
        l7 == [shims |-> l6.shims \o o.custom, testShims |-> l6.testShims \o o.custom]
    IN  [l7 EXCEPT !.testShims = @ \o o.customDev]

NotResolved == [called |-> FALSE, shims |-> <<>>, testShims |-> <<>>]

SInit ==
    /\ shimOptions \in ShimOptions
    /\ resolved = NotResolved
    /\ HarnessIdle
    /\ BuildIdle
    /\ ManifestIdle

Resolve ==
    /\ ~resolved.called
    /\ LET r == shimOptionsToTransformShims(shimOptions)
       IN  resolved' = [called |-> TRUE, shims |-> r.shims, testShims |-> r.testShims]
    /\ UNCHANGED shimOptions
    /\ UNCHANGED <<hvars, bvars, mvars>>

ShimSpec == SInit /\ [][Resolve]_vars

(***************************************************************************)
(* Properties of shimOptionsToTransformShims.                              *)
(***************************************************************************)
\* how many times shim d is in list l
Count(l, d) == Cardinality({j \in 1..Len(l) : l[j] = d})

\* the capabilities whose option is a ShimValue, with their descriptors
Capabilities == {"blob", "crypto", "prompts", "timers", "undici"}
Descriptor ==
    [blob |-> getBlobShim, crypto |-> getCryptoShim, prompts |-> getPromptsShim,
     timers |-> getTimersShim, undici |-> getUndiciShim]

DenoIs(v) == ~shimOptions.deno.object /\ shimOptions.deno.value = v
DenoTestIs(v) == shimOptions.deno.object /\ shimOptions.deno.test = v

\* C12: a capability whose option is true has its descriptor exactly once in
\* shims and exactly once in testShims, whatever the other options are.
C12_OnInBothListsOnce ==
    resolved.called =>
        /\ \A c \in Capabilities :
                shimOptions[c] = "true" =>
                    /\ Count(resolved.shims, Descriptor[c]) = 1
                    /\ Count(resolved.testShims, Descriptor[c]) = 1
        /\ DenoIs("true") =>
                /\ Count(resolved.shims, getDenoShim) = 1
                /\ Count(resolved.testShims, getDenoShim) = 1

C12_Witness ==
    /\ resolved.called
    /\ DenoIs("true")
    /\ shimOptions.undici = "true"
    /\ shimOptions.crypto = "dev"
    /\ shimOptions.timers = "false"
    /\ shimOptions.custom # <<>>
    /\ Len(resolved.shims) = 3
    /\ Len(resolved.testShims) = 4

\* C13: a capability whose option is "dev" has its descriptor in testShims and
\* not in shims; one whose option is false or left out has it in neither.
C13_DevInTestListOnly ==
    resolved.called =>
        /\ \A c \in Capabilities :
                /\ shimOptions[c] = "dev" =>
                        /\ Count(resolved.testShims, Descriptor[c]) = 1
                        /\ Count(resolved.shims, Descriptor[c]) = 0
                /\ shimOptions[c] \in {"false", "undefined"} =>
                        /\ Count(resolved.testShims, Descriptor[c]) = 0
                        /\ Count(resolved.shims, Descriptor[c]) = 0
        /\ DenoIs("dev") =>
                /\ Count(resolved.testShims, getDenoShim) = 1
                /\ Count(resolved.shims, getDenoShim) = 0
        /\ DenoTestIs("dev") =>
                /\ Count(resolved.testShims, getDenoTestShim) = 1
                /\ Count(resolved.shims, getDenoTestShim) = 0
        /\ (DenoIs("false") \/ DenoIs("undefined") \/ DenoTestIs("false")) =>
                \A d \in {getDenoShim, getDenoTestShim} :
                    /\ Count(resolved.testShims, d) = 0
                    /\ Count(resolved.shims, d) = 0

C13_Witness ==
    /\ resolved.called
    /\ DenoTestIs("dev")
    /\ shimOptions.blob = "dev"
    /\ shimOptions.prompts = "undefined"
    /\ shimOptions.timers = "false"
    /\ shimOptions.undici = "true"
    /\ resolved.testShims[1] = getDenoTestShim
    /\ resolved.testShims[2] = getBlobShim
    /\ resolved.shims[1] = getUndiciShim

\* C14: options.deno in its object form is scoped to the tests whatever its
\* test setting is, true included: its descriptor is never in shims.
C14_ObjectFormScopedToTests ==
    (resolved.called /\ shimOptions.deno.object) =>
        \A j \in 1..Len(resolved.shims) :
            resolved.shims[j] \notin {getDenoTestShim, getDenoShim}

\* C14 as amended: the test setting of the object form is resolved as every
\* other option is: true puts the Deno.test descriptor in shims and in
\* testShims, "dev" in testShims only, false in neither; the descriptor of the
\* whole namespace is in neither list.
C14_ObjectFormResolvedAsAnyOption ==
    (resolved.called /\ shimOptions.deno.object) =>
        /\ Count(resolved.testShims, getDenoTestShim) =
                (IF shimOptions.deno.test \in {"true", "dev"} THEN 1 ELSE 0)
        /\ Count(resolved.shims, getDenoTestShim) =
                (IF shimOptions.deno.test = "true" THEN 1 ELSE 0)
        /\ Count(resolved.testShims, getDenoShim) = 0
        /\ Count(resolved.shims, getDenoShim) = 0

C14_Witness ==
    /\ resolved.called
    /\ DenoTestIs("true")
    /\ shimOptions.blob = "true"
    /\ resolved.shims[1] = getDenoTestShim
    /\ resolved.testShims[1] = getDenoTestShim

\* the names in a list of GlobalName
Names(gs) == {gs[j].name : j \in 1..Len(gs)}

\* the descriptor the object form of options.deno put in testShims
DenoDescriptors == {d \in Range(resolved.testShims) : "Deno" \in Names(d.globalNames)}

\* C15: the descriptor of the object form of options.deno exposes the
\* test-registration surface only: strictly fewer globals than the descriptor
\* of the whole namespace.
C15_TestFormExposesFewerGlobals ==
    (resolved.called /\ (DenoTestIs("true") \/ DenoTestIs("dev"))) =>
        \A d \in DenoDescriptors :
            /\ Names(d.globalNames) \subseteq Names(getDenoShim.globalNames)
            /\ Names(d.globalNames) # Names(getDenoShim.globalNames)

\* C15 as amended: the descriptor of the object form names another package,
\* @deno/shim-deno-test, and the same single global as the descriptor of the
\* whole namespace: Deno, not type-only.
C15_TestFormIsAnotherPackage ==
    (resolved.called /\ (DenoTestIs("true") \/ DenoTestIs("dev"))) =>
        /\ DenoDescriptors # {}
        /\ \A d \in DenoDescriptors :
                /\ d.package.name = "@deno/shim-deno-test"
                /\ d.package.name # getDenoShim.package.name
                /\ d.globalNames = <<global("Deno")>>
                /\ d.globalNames = getDenoShim.globalNames

C15_Witness ==
    /\ resolved.called
    /\ DenoTestIs("dev")
    /\ resolved.shims = <<>>
    /\ resolved.testShims = <<getDenoTestShim>>

\* whether s is t with some of its elements left out
RECURSIVE IsSubsequence(_, _)
IsSubsequence(s, t) ==
    IF s = <<>> THEN TRUE
    ELSE IF t = <<>> THEN FALSE
    ELSE IF Head(s) = Head(t) THEN IsSubsequence(Tail(s), Tail(t))
    ELSE IsSubsequence(s, Tail(t))

\* the place of a descriptor in the order of evaluation
Rank(d) ==
    CASE d \in {getDenoShim, getDenoTestShim} -> 1
      [] d = getBlobShim -> 2
      [] d = getCryptoShim -> 3
      [] d = getPromptsShim -> 4
      [] d = getTimersShim -> 5
      [] d = getUndiciShim -> 6
      [] d \in CustomShims -> 7
      [] d \in CustomDevShims -> 8

InOrder(l) == \A j \in 1..Len(l) - 1 : Rank(l[j]) <= Rank(l[j + 1])

\* C21: for every ShimOptions, shims is a subsequence of testShims: every
\* descriptor of shims is in testShims too, in the same relative order, and
\* both lists are in the order deno, blob, crypto, prompts, timers, undici,
\* custom, with customDev in testShims only, at its end.
C21_DistIsSubsequenceOfTest ==
    resolved.called =>
        /\ IsSubsequence(resolved.shims, resolved.testShims)
        /\ InOrder(resolved.shims)
        /\ InOrder(resolved.testShims)
        /\ \A j \in 1..Len(resolved.shims) : resolved.shims[j] \notin CustomDevShims
        /\ IsSubsequence(shimOptions.custom, resolved.shims)
        /\ Len(resolved.testShims) >= Len(shimOptions.customDev)
        /\ SubSeq(resolved.testShims,
                  Len(resolved.testShims) - Len(shimOptions.customDev) + 1,
                  Len(resolved.testShims)) = shimOptions.customDev

C21_Witness ==
    /\ resolved.called
    /\ DenoIs("true")
    /\ shimOptions.blob = "dev"
    /\ shimOptions.timers = "true"
    /\ shimOptions.undici = "dev"
    /\ shimOptions.custom # <<>>
    /\ shimOptions.customDev # <<>>
    /\ Len(resolved.shims) = 3
    /\ Len(resolved.testShims) = 6

(***************************************************************************)
(* createPackageJson(): from transformOutput, testOutput, the specifier    *)
(* mappings and options.package to the object written as package.json.     *)
(* A JavaScript object is a function from its keys; a property that may be *)
(* undefined is None or Some(value).                                       *)
(***************************************************************************)
MaxDependencies == 1 \* entries in a list of dependencies, and of specifier mappings

None == [defined |-> FALSE]
Some(v) == [defined |-> TRUE, value |-> v]
\* o ?? d
Coalesce(o, d) == IF o.defined THEN o.value ELSE d

EmptyObject == [k \in {} |-> ""]
\* { ...a, ...b }
Spread(a, b) ==
    [k \in DOMAIN a \cup DOMAIN b |-> IF k \in DOMAIN b THEN b[k] ELSE a[k]]
\* Object.fromEntries(es.map((d) => [d.name, d.version]))
RECURSIVE ObjectFromEntries(_)
ObjectFromEntries(es) ==
    IF es = <<>> THEN EmptyObject
    ELSE Spread(ObjectFromEntries(Pop(es)), es[Len(es)].name :> es[Len(es)].version)

\* options.shimPackage ?? { name: "deno.ns", version: "0.5.0" }
shimPackage == [name |-> "deno.ns", version |-> "0.5.0"]

\* path.replace(/\.ts$/i, to), for a path given as what precedes its last dot
\* and what follows
replaceTs(path, to) ==
    IF path.ext \in {".ts", ".TS", ".Ts", ".tS"}
    THEN path.stem \o to
    ELSE path.stem \o path.ext

\* .filter((v) => v.version) without the filter
declaresVersionAlways(v) == TRUE
\* .filter((v) => v.version): a version left out, or empty, is falsy
declaresVersion(v) == v.version \notin {"undefined", ""}

\* specifierMappings && Object.fromEntries(Object.values(specifierMappings)
\*   .filter((v) => v.version).map((value) => [value.name, value.version])) ?? {}
mappingDependencies(specifierMappings) ==
    IF specifierMappings.defined
    THEN ObjectFromEntries(SelectSeq(specifierMappings.value, declaresVersion))
    ELSE EmptyObject

\* { [shimPackage.name]: shimPackage.version }
shimDependency == shimPackage.name :> shimPackage.version

\* const dependencies = { ... }
dependenciesOf(in) ==
    Spread(Spread(Spread(ObjectFromEntries(in.transformOutput.dependencies),
                         mappingDependencies(in.specifierMappings)),
                  IF in.transformOutput.shimUsed THEN shimDependency ELSE EmptyObject),
           Coalesce(in.package.dependencies, EmptyObject))

\* getTestOutput(): undefined without test files; the dependencies of the test
\* transform that the transform of the entry points does not name
getTestOutput(in) ==
    LET outputDependencyNames ==
            {in.transformOutput.dependencies[j].name :
                j \in 1..Len(in.transformOutput.dependencies)}
        NotInOutput(d) == d.name \notin outputDependencyNames
    IN  IF in.testTransformOutput.found
        THEN Some([shimUsed |-> in.testTransformOutput.shimUsed,
                   dependencies |->
                        SelectSeq(in.testTransformOutput.dependencies, NotInOutput)])
        ELSE None

\* !Object.keys(dependencies).includes(shimPackage.name) without the look
shimMissingAlways(dependencies) == TRUE
\* !Object.keys(dependencies).includes(shimPackage.name)
shimMissingFrom(dependencies) == shimPackage.name \notin DOMAIN dependencies

\* const devDependencies = testOutput ? ({ ... }) : options.package.devDependencies
devDependenciesOf(in, dependencies) ==
    LET testOutput_ == getTestOutput(in)
    IN  IF testOutput_.defined
        THEN Some(Spread(Spread(ObjectFromEntries(testOutput_.value.dependencies),
                                IF testOutput_.value.shimUsed /\ shimMissingFrom(dependencies)
                                THEN shimDependency ELSE EmptyObject),
                         Coalesce(in.package.devDependencies, EmptyObject)))
        ELSE in.package.devDependencies

\* const scripts = testOutput ? ({ test: "node test_runner.js", ... }) : options.package.scripts
scriptsOf(in) ==
    IF getTestOutput(in).defined
    THEN Some(Spread("test" :> "node test_runner.js",
                     Coalesce(in.package.scripts, EmptyObject)))
    ELSE in.package.scripts

\* options.package.exports?.["."] ?? {}
userExportsDot(in) ==
    IF in.package.exports.defined /\ "." \in DOMAIN in.package.exports.value
    THEN in.package.exports.value["."]
    ELSE EmptyObject

\* ".": what the user gave, and the derived entry only without it
exportsDotOutright(derived, given) == IF given = EmptyObject THEN derived ELSE given
\* ".": { import: ..., require: ..., types: ..., ...(options.package.exports?.["."] ?? {}) }
exportsDot(derived, given) == Spread(derived, given)

createPackageJson(in) ==
    LET entryPointPath == replaceTs(in.transformOutput.entryPoints[1], ".js")
        entryPointDtsFilePath == replaceTs(in.transformOutput.entryPoints[1], ".d.ts")
        dependencies == dependenciesOf(in)
        types == Coalesce(in.package.types, "./types/" \o entryPointDtsFilePath)
        derived == [import |-> "./esm/" \o entryPointPath,
                    require |-> "./cjs/" \o entryPointPath,
                    types |-> types]
    IN  [created |-> TRUE,
         name |-> in.package.name,
         module |-> Coalesce(in.package.module, "./esm/" \o entryPointPath),
         main |-> Coalesce(in.package.main, "./cjs/" \o entryPointPath),
         types |-> types,
         exports |-> Spread(Coalesce(in.package.exports, EmptyObject),
                            "." :> exportsDot(derived, userExportsDot(in))),
         scripts |-> scriptsOf(in),
         dependencies |-> dependencies,
         devDependencies |-> devDependenciesOf(in, dependencies)]

\* The names and versions of the dependencies: every source has a version of
\* its own, so a version in the manifest tells the source it came from.
DependencyNames == {"lib", shimPackage.name}
Dependencies(version) == {[name |-> n, version |-> version] : n \in DependencyNames}
Objects(version) == {[n \in S |-> version] : S \in SUBSET DependencyNames}
Optional(S) == {None} \cup {Some(v) : v \in S}

TransformDependencies == SeqsUpTo(Dependencies("^1.0.0"), MaxDependencies)
SpecifierMappings ==
    Optional(SeqsUpTo(Dependencies("^2.0.0") \cup Dependencies("undefined"),
                      MaxDependencies))
UserDependencies == Optional(Objects("^3.0.0"))
TestDependencies == SeqsUpTo(Dependencies("^4.0.0"), MaxDependencies)
UserDevDependencies == Optional(Objects("^5.0.0"))
UserScripts == Optional({"test" :> "my-test-runner"})

\* transformOutput.entryPoints: paths of modules, one or two
Paths ==
    {[stem |-> "mod", ext |-> ".ts"], [stem |-> "lib/Index", ext |-> ".TS"],
     [stem |-> "main", ext |-> ".js"]}
EntryPoints == {<<p>> : p \in Paths} \cup {<<p, q>> : p, q \in Paths}

\* options.package.exports: nothing, other subpaths only, or "." with some conditions
UserExportsDot ==
    {EmptyObject,
     "import" :> "./custom/esm.mjs",
     "default" :> "./custom/any.js",
     [import |-> "./custom/esm.mjs", require |-> "./custom/cjs.cjs",
      types |-> "./custom/types.d.ts"]}
UserExports ==
    Optional({EmptyObject, "./sub" :> "./sub.js"}
             \cup {"." :> d : d \in UserExportsDot}
             \cup {[k \in {".", "./sub"} |-> IF k = "." THEN d ELSE "./sub.js"] :
                        d \in UserExportsDot})

\* Inputs that differ in where the dependencies come from.
DependencyInputs ==
    [transformOutput : [entryPoints : {<<[stem |-> "mod", ext |-> ".ts"]>>},
                        dependencies : TransformDependencies,
                        shimUsed : BOOLEAN],
     testTransformOutput : [found : {TRUE}, dependencies : TestDependencies,
                            shimUsed : BOOLEAN]
                           \cup [found : {FALSE}, dependencies : {<<>>},
                                 shimUsed : {FALSE}],
     specifierMappings : SpecifierMappings,
     package : [name : {"pkg"}, dependencies : UserDependencies,
                devDependencies : UserDevDependencies, scripts : UserScripts,
                module : {None}, main : {None}, types : {None}, exports : {None}]]

\* Inputs that differ in the entry points and in the entry-point fields.
EntryPointInputs ==
    [transformOutput : [entryPoints : EntryPoints, dependencies : {<<>>},
                        shimUsed : {FALSE}],
     testTransformOutput : [found : {FALSE}, dependencies : {<<>>}, shimUsed : {FALSE}],
     specifierMappings : {None},
     package : [name : {"pkg"}, dependencies : {None}, devDependencies : {None},
                scripts : {None},
                module : Optional({"./custom/module.mjs"}),
                main : Optional({"./custom/main.cjs"}),
                types : Optional({"./custom/index.d.ts"}),
                exports : UserExports]]

NotCreated == [created |-> FALSE]

MInit ==
    /\ manifestIn \in DependencyInputs \cup EntryPointInputs
    /\ packageJsonObj = NotCreated
    /\ HarnessIdle
    /\ BuildIdle
    /\ ShimsIdle

CreatePackageJson ==
    /\ ~packageJsonObj.created
    /\ packageJsonObj' = createPackageJson(manifestIn)
    /\ UNCHANGED manifestIn
    /\ UNCHANGED <<hvars, bvars, svars>>

ManifestSpec == MInit /\ [][CreatePackageJson]_vars

(***************************************************************************)
(* Properties of createPackageJson.                                        *)
(***************************************************************************)
KeysOf(o) == IF o.defined THEN DOMAIN o.value ELSE {}
NamesIn(es) == {es[j].name : j \in 1..Len(es)}
\* the version of the last entry of es that names n
LastVersion(es, n) == es[SetMax({j \in 1..Len(es) : es[j].name = n})].version
Has(object, key, value) == key \in DOMAIN object /\ object[key] = value

\* the names the test transform adds to those of the transform of the entry points
TestOnlyNames ==
    IF manifestIn.testTransformOutput.found
    THEN NamesIn(manifestIn.testTransformOutput.dependencies)
            \ NamesIn(manifestIn.transformOutput.dependencies)
    ELSE {}

\* C16: devDependencies never contains the shim package when dependencies
\* contains it, whatever the transforms, the mappings and the user declare.
C16_ShimNeverInBoth ==
    packageJsonObj.created =>
        ~(/\ shimPackage.name \in DOMAIN packageJsonObj.dependencies
          /\ shimPackage.name \in KeysOf(packageJsonObj.devDependencies))

\* C16 as amended: when dependencies contains the shim package, createPackageJson
\* adds no shim entry of its own to devDependencies: devDependencies contains
\* the shim package only if the user's devDependencies name it, or else the
\* test transform's own dependencies do, and with their version.
C16_ShimNotAddedTwice ==
    (packageJsonObj.created /\ shimPackage.name \in DOMAIN packageJsonObj.dependencies) =>
        LET dev == packageJsonObj.devDependencies
            user == manifestIn.package.devDependencies
        IN  IF shimPackage.name \in KeysOf(user)
            THEN dev.defined /\ Has(dev.value, shimPackage.name, user.value[shimPackage.name])
            ELSE IF shimPackage.name \in TestOnlyNames
            THEN dev.defined
                 /\ Has(dev.value, shimPackage.name,
                        LastVersion(manifestIn.testTransformOutput.dependencies,
                                    shimPackage.name))
            ELSE shimPackage.name \notin KeysOf(dev)

C16_Witness ==
    /\ packageJsonObj.created
    /\ manifestIn.transformOutput.shimUsed
    /\ manifestIn.testTransformOutput.found
    /\ manifestIn.testTransformOutput.shimUsed
    /\ manifestIn.package.devDependencies.defined
    /\ Has(packageJsonObj.dependencies, shimPackage.name, shimPackage.version)
    /\ DOMAIN packageJsonObj.devDependencies.value = {"lib"}

\* C17: dependencies is the merge, later over earlier, of the dependencies of
\* the transform, the specifier mappings that declare a version, the shim
\* package if the transform used the shim, and the user's dependencies: for
\* every name the last of these sources that has it decides, the user first.
C17_DependencyPrecedence ==
    packageJsonObj.created =>
        LET deps == packageJsonObj.dependencies
            user == manifestIn.package.dependencies
            mappings == IF manifestIn.specifierMappings.defined
                        THEN manifestIn.specifierMappings.value ELSE <<>>
            versioned == {j \in 1..Len(mappings) : mappings[j].version # "undefined"}
            transformed == manifestIn.transformOutput.dependencies
        IN  /\ DOMAIN deps \subseteq DependencyNames
            /\ \A n \in DependencyNames :
                    IF n \in KeysOf(user)
                    THEN Has(deps, n, user.value[n])
                    ELSE IF manifestIn.transformOutput.shimUsed /\ n = shimPackage.name
                    THEN Has(deps, n, shimPackage.version)
                    ELSE IF \E j \in versioned : mappings[j].name = n
                    THEN Has(deps, n,
                             mappings[SetMax({j \in versioned : mappings[j].name = n})].version)
                    ELSE IF n \in NamesIn(transformed)
                    THEN Has(deps, n, LastVersion(transformed, n))
                    ELSE n \notin DOMAIN deps

C17_Witness ==
    /\ packageJsonObj.created
    /\ manifestIn.transformOutput.shimUsed
    /\ "lib" \in NamesIn(manifestIn.transformOutput.dependencies)
    /\ manifestIn.specifierMappings.defined
    /\ \E j \in 1..Len(manifestIn.specifierMappings.value) :
            manifestIn.specifierMappings.value[j] = [name |-> "lib", version |-> "^2.0.0"]
    /\ KeysOf(manifestIn.package.dependencies) = {"lib"}
    /\ packageJsonObj.dependencies =
            [n \in DependencyNames |-> IF n = "lib" THEN "^3.0.0" ELSE shimPackage.version]

\* the derived paths: the first entry point with its extension rewritten
DerivedJs == replaceTs(manifestIn.transformOutput.entryPoints[1], ".js")
DerivedDts == replaceTs(manifestIn.transformOutput.entryPoints[1], ".d.ts")
UserGivesExportsDot ==
    /\ manifestIn.package.exports.defined
    /\ "." \in DOMAIN manifestIn.package.exports.value

MainModuleTypes ==
    /\ packageJsonObj.main =
            (IF manifestIn.package.main.defined THEN manifestIn.package.main.value
             ELSE "./cjs/" \o DerivedJs)
    /\ packageJsonObj.module =
            (IF manifestIn.package.module.defined THEN manifestIn.package.module.value
             ELSE "./esm/" \o DerivedJs)
    /\ packageJsonObj.types =
            (IF manifestIn.package.types.defined THEN manifestIn.package.types.value
             ELSE "./types/" \o DerivedDts)

\* C18: main, module, types and exports["."] are the derived defaults under
\* ./cjs, ./esm and ./types when the user does not give the field, and the
\* user's value outright, with nothing derived in it, when the user gives it.
C18_EntryFieldsDefaultOrUser ==
    packageJsonObj.created =>
        /\ MainModuleTypes
        /\ packageJsonObj.exports["."] =
                (IF UserGivesExportsDot THEN manifestIn.package.exports.value["."]
                 ELSE [import |-> "./esm/" \o DerivedJs,
                       require |-> "./cjs/" \o DerivedJs,
                       types |-> "./types/" \o DerivedDts])

\* C18 as amended: main, module and types are the user's value when given and
\* the derived default otherwise; exports["."] has the conditions import,
\* require and types and those the user gives for ".": a condition the user
\* gives has the user's value, import and require otherwise have the derived
\* paths and types has the manifest's types field (the user's types when
\* given); the user's other exports are kept.
C18_ExportsDotMergedByCondition ==
    packageJsonObj.created =>
        LET dot == packageJsonObj.exports["."]
            given == IF UserGivesExportsDot THEN manifestIn.package.exports.value["."]
                     ELSE EmptyObject
        IN  /\ MainModuleTypes
            /\ DOMAIN dot = {"import", "require", "types"} \cup DOMAIN given
            /\ \A k \in DOMAIN dot :
                    dot[k] = (IF k \in DOMAIN given THEN given[k]
                              ELSE IF k = "import" THEN "./esm/" \o DerivedJs
                              ELSE IF k = "require" THEN "./cjs/" \o DerivedJs
                              ELSE packageJsonObj.types)
            /\ DOMAIN packageJsonObj.exports = {"."} \cup KeysOf(manifestIn.package.exports)
            /\ \A k \in KeysOf(manifestIn.package.exports) \ {"."} :
                    packageJsonObj.exports[k] = manifestIn.package.exports.value[k]

C18_Witness ==
    /\ packageJsonObj.created
    /\ Len(manifestIn.transformOutput.entryPoints) = 2
    /\ manifestIn.transformOutput.entryPoints[1].ext = ".TS"
    /\ manifestIn.package.types.defined
    /\ ~manifestIn.package.main.defined
    /\ UserGivesExportsDot
    /\ DOMAIN manifestIn.package.exports.value = {".", "./sub"}
    /\ DOMAIN manifestIn.package.exports.value["."] = {"import"}
    /\ packageJsonObj.main = "./cjs/lib/Index.js"
    /\ packageJsonObj.exports["."] =
            [import |-> "./custom/esm.mjs", require |-> "./cjs/lib/Index.js",
             types |-> "./custom/index.d.ts"]

====
